---- MODULE Spec2Model ----
(***************************************************************************)
(* State-machine model of AgentManager                                     *)
(* (scripts/multi_agent_parallel_execution.py): the priority task queue,   *)
(* the agent selector, the dispatcher loop, the executor completion        *)
(* handler, the health monitor and the performance tracker.                *)
(*                                                                         *)
(* The manager runs on one asyncio event loop, so every stretch of code    *)
(* between two awaits that suspend is one atomic action.  Awaiting         *)
(* _assign_task_to_agent does not suspend (it contains no suspending       *)
(* await), so one dispatcher batch is one action.                          *)
(*                                                                         *)
(* Time is the integer number of seconds read by time.time(); it advances  *)
(* in steps of TickStep.  Scores are Python floats in the code; the model  *)
(* computes them as exact fractions [num, den].                            *)
(***************************************************************************)
EXTENDS Integers, Sequences, FiniteSets, TLC

(* ------------------------------ bounds --------------------------------- *)
\* number of agents the manager is constructed with (max_agents argument)
MaxAgents == 2
\* number of add_task calls in a run
MaxTasks == 3
\* the clock stops advancing here
MaxTime == 40
\* seconds per clock step
TickStep == 20
\* successful tasks an agent may already have run before the observed run
PriorRuns == 70
\* live coroutines of one background loop
MaxLoops == 1

(* -------------------------- program constants -------------------------- *)
LOW == 1
NORMAL == 2
HIGH == 3
CRITICAL == 4
StuckTimeout == 30
RecoveryTime == 10

\* An Optional[...] field is a set with at most one element: None is the empty
\* set and a value x is {x}
None == {}
Some(x) == {x}

\* The manager writes created_at, started_at and completed_at of a Task and
\* never reads them: the model keeps whether each is set, not the float
Stamp(time) == Some("time")

TaskPriority == {LOW, NORMAL, HIGH, CRITICAL}
AgentStatus == {"idle", "busy", "error", "offline"}


(* ---------------------- descriptions and keywords ---------------------- *)
\* a description is a sequence of one-character strings
UpperChars == <<"A","B","C","D","E","F","G","H","I","J","K","L","M",
                "N","O","P","Q","R","S","T","U","V","W","X","Y","Z">>
LowerChars == <<"a","b","c","d","e","f","g","h","i","j","k","l","m",
                "n","o","p","q","r","s","t","u","v","w","x","y","z">>

\* str.lower() on one character
LowerChar(c) ==
    IF \E i \in 1..Len(UpperChars) : UpperChars[i] = c
    THEN LowerChars[CHOOSE i \in 1..Len(UpperChars) : UpperChars[i] = c]
    ELSE c

\* a comparison that does not fold case
Lower_AsIs(s) == s

\* str.lower()
Lower(s) == [i \in 1..Len(s) |-> LowerChar(s[i])]

\* the Python test `kw in s`
Contains(s, kw) ==
    \E i \in 0..(Len(s) - Len(kw)) :
        \A j \in 1..Len(kw) : s[i + j] = kw[j]

KwForm == <<"f","o","r","m">>
KwScrape == <<"s","c","r","a","p","e">>
KwExtract == <<"e","x","t","r","a","c","t">>
KwTest == <<"t","e","s","t">>
KwMonitor == <<"m","o","n","i","t","o","r">>

\* the (priority, description) pairs add_task is called with in the model
TaskInputs ==
    { << LOW, <<"p","i","n","g">> >>,
      << NORMAL, <<"S","c","r","a","p","e">> >>,
      << CRITICAL, <<"p","i","n","g">> >> }

\* AgentManager._extract_task_requirements: the list of required capabilities
\* the keyword tests of lines 291-297 on the lower-cased description d
KeywordRequirements(d) ==
    (IF Contains(d, KwForm) THEN <<"form_filling">> ELSE <<>>)
    \o (IF Contains(d, KwScrape) \/ Contains(d, KwExtract)
        THEN <<"scraping">> ELSE <<>>)
    \o (IF Contains(d, KwTest) THEN <<"testing">> ELSE <<>>)
    \o (IF Contains(d, KwMonitor) THEN <<"monitoring">> ELSE <<>>)

\* (a value is bound through a one-element set where it is used several
\* times, so that it is computed once)
ExtractTaskRequirements(description) ==
    CHOOSE r \in
      { IF requirements # <<>> THEN requirements ELSE <<"general">> :
        requirements \in
          { KeywordRequirements(d) : d \in {Lower(description)} } } : TRUE

ToSet(s) == { s[i] : i \in 1..Len(s) }

(* ------------------------------- agents -------------------------------- *)
\* agent_configs of AgentManager.initialize, by position
AgentConfigs ==
    << {"scraping", "data_extraction", "screenshots"},
       {"form_filling", "authentication", "validation"},
       {"testing", "validation", "performance_monitoring"},
       {"monitoring", "health_checks", "reporting"},
       {"general", "backup", "flexible"} >>

Min(a, b) == IF a < b THEN a ELSE b

\* ids of the agents initialize creates for a manager built with max_agents:
\* agent_1 .. agent_n
InitialAgentIds(max_agents) == 1..Min(max_agents, Len(AgentConfigs))

Capabilities(a) == AgentConfigs[a]

\* task ids: the i-th submitted task has id i (ids are fresh uuid4 values)
TaskIds == 1..MaxTasks

LoopKinds == {"distributor", "monitor", "tracker"}

VARIABLES
    agents,          \* self.agents: agent id -> Agent record
    tasks,           \* the Task objects submitted so far, by id
    task_queue,      \* self.task_queue: sequence of task ids
    active_tasks,    \* self.active_tasks: its key set
    completed_tasks, \* self.completed_tasks: sequence of task ids
    stats,           \* self.stats
    is_running,      \* self.is_running
    loops,           \* live coroutines of each background loop
    running,         \* in-flight _execute_task invocations
    now,             \* time.time()
    history,         \* per agent: tasks it completed before the observed run
    last_batch,      \* the pops of the dispatcher batch just run (else empty)
    error_since,     \* per agent: when its status became ERROR (else None)
    selection,       \* one call of _select_best_agent or, on its own, of
                     \* _extract_task_requirements: arguments and result
    reclaimed,       \* agents a sweep reset from BUSY since the last idle-set pass
    report           \* the dict get_status_report just returned (else empty)

\* self.agents.keys()
AgentIds == DOMAIN agents

vars == << agents, tasks, task_queue, active_tasks, completed_tasks, stats,
           is_running, loops, running, now, history, last_batch, error_since,
           selection, reclaimed, report >>

(* ------------------------------ helpers -------------------------------- *)
RECURSIVE SumOver(_, _)
SumOver(f, S) ==
    IF S = {} THEN 0
    ELSE LET x == CHOOSE y \in S : TRUE IN f[x] + SumOver(f, S \ {x})

\* exact fractions for the float scores
Frac(n, d) == [num |-> n, den |-> d]
FracGt(x, y) == x.num * y.den > y.num * x.den

(* ------------------------------- Init ---------------------------------- *)
\* Agent(...) as built by initialize, for an agent that already completed
\* h tasks successfully in earlier work (h = 0: a fresh manager; every agent
\* of a run starts with the same h)
NewAgent(a, h) ==
    [ capabilities |-> Capabilities(a),
      status |-> "idle",
      current_task |-> None,
      completed_tasks |-> h,
      failed_tasks |-> 0,
      total_execution_time |-> 0,
      last_activity |-> 0 ]

\* AgentManager.__init__ and initialize.  The records of the
\* SumOver(history, AgentIds) tasks of the earlier work are in the code's
\* completed_tasks list and counted in stats; the model does not enumerate
\* them: completed_tasks holds the ids of the tasks of the observed run.
Init ==
    /\ history \in { [a \in InitialAgentIds(MaxAgents) |-> h] : h \in {0, PriorRuns} }
    /\ agents = [a \in InitialAgentIds(MaxAgents) |-> NewAgent(a, history[a])]
    /\ tasks = << >>
    /\ task_queue = << >>
    /\ active_tasks = {}
    /\ completed_tasks = << >>
    /\ stats = [ total_tasks |-> SumOver(history, DOMAIN history),
                 completed_tasks |-> SumOver(history, DOMAIN history),
                 failed_tasks |-> 0,
                 average_execution_time |-> Frac(0, 1) ]
    /\ is_running = FALSE
    /\ loops = [k \in LoopKinds |-> 0]
    /\ running = {}
    /\ now = 0
    /\ last_batch = << >>
    /\ report = << >>
    /\ error_since = [a \in InitialAgentIds(MaxAgents) |-> None]
    /\ selection = << >>
    /\ reclaimed = {}

(* ------------------------------ add_task ------------------------------- *)
Priority(ts, t) == ts[t].priority

\* a sort that is not stable: the new task goes before its equals
InsertPosition_BeforeEquals(q, ts, p) ==
    Cardinality({ i \in 1..Len(q) : ts[q[i]].priority > p })

\* position at which a stable descending sort places priority p in a queue
\* that is already sorted: behind every task of priority >= p
InsertPosition(q, ts, p) ==
    Cardinality({ i \in 1..Len(q) : Priority(ts, q[i]) >= p })

InsertAt(q, k, t) == SubSeq(q, 1, k) \o << t >> \o SubSeq(q, k + 1, Len(q))

\* add_task without the sort
SortQueue_Unsorted(q, ts) == q

\* list.sort(key=priority value, reverse=True): a stable insertion sort, left
\* to right
RECURSIVE SortQueue(_, _)
SortQueue(q, ts) ==
    IF q = << >> THEN << >>
    ELSE LET front == SortQueue(SubSeq(q, 1, Len(q) - 1), ts)
             t == q[Len(q)]
         IN InsertAt(front, InsertPosition(front, ts, Priority(ts, t)), t)

NewTask(id, p, d) ==
    [ id |-> id,
      description |-> d,
      priority |-> p,
      retry_count |-> 1,
      created_at |-> Stamp(now),
      assigned_agent |-> None,
      started_at |-> None,
      completed_at |-> None,
      result |-> None,
      error |-> None ]

\* AgentManager.add_task, called with a new Task object
AddTask(p, d) ==
    /\ Len(tasks) < MaxTasks
    /\ LET id == Len(tasks) + 1
           ts == Append(tasks, NewTask(id, p, d))
       IN /\ tasks' = ts
          /\ task_queue' = SortQueue(Append(task_queue, id), ts)
    /\ stats' = [stats EXCEPT !.total_tasks = @ + 1]
    /\ last_batch' = << >>
    /\ report' = << >>
    /\ UNCHANGED << agents, active_tasks, completed_tasks, is_running, loops,
                    running, now, history,
                    error_since, selection, reclaimed >>

(* --------------------------- _select_best_agent ------------------------ *)
\* the score without the capability term
Score_NoCapability(agent, capabilities, requirements) ==
    LET c == agent.completed_tasks
        f == agent.failed_tasks
    IN IF c = 0
       THEN Frac(5, 1)
       ELSE Frac(50 * c - c * (c + f), 10 * (c + f))

\* the score without the + 5 of an agent that completed nothing
Score_NoFreshBonus(agent, capabilities, requirements) ==
    LET matching == Cardinality(capabilities \cap ToSet(requirements))
        c == agent.completed_tasks
        f == agent.failed_tasks
    IN IF c = 0
       THEN Frac(matching * 10, 1)
       ELSE Frac(matching * 100 * (c + f) - c * (c + f) + 50 * c, 10 * (c + f))

\* the score of one candidate (lines 261-277) as an exact fraction:
\*   matching * 10, + 5 if completed = 0 else - completed * 0.1,
\*   + completed / (completed + failed) * 5 if completed > 0
Score(agent, capabilities, requirements) ==
    LET matching == Cardinality(capabilities \cap ToSet(requirements))
        c == agent.completed_tasks
        f == agent.failed_tasks
    IN IF c = 0
       THEN Frac(matching * 10 + 5, 1)
       ELSE Frac(matching * 100 * (c + f) - c * (c + f) + 50 * c, 10 * (c + f))

\* a best_score no candidate can exceed
InitialBestScore_Unreachable == Frac(1000, 1)

\* best_score = -1
InitialBestScore == Frac(0 - 1, 1)

\* the for loop of _select_best_agent over the candidate list
RECURSIVE SelectLoop(_, _, _, _, _)
SelectLoop(task, available, ags, best_agent, best_score) ==
    IF available = << >> THEN best_agent
    ELSE CHOOSE r \in
           { IF FracGt(score, best_score)
             THEN SelectLoop(task, Tail(available), ags, Some(a), score)
             ELSE SelectLoop(task, Tail(available), ags, best_agent,
                             best_score) :
             a \in {Head(available)},
             score \in
               { Score(ags[Head(available)], ags[Head(available)].capabilities,
                       ExtractTaskRequirements(task.description)) } } : TRUE

\* AgentManager._select_best_agent: Some(agent id) or None
SelectBestAgent(task, available, ags) ==
    SelectLoop(task, available, ags, None, InitialBestScore)

(* ------------------------------ ERROR since --------------------------- *)
\* error_since after a step from agent map old to agent map new: the time of
\* the step for an agent that becomes ERROR, kept while it stays ERROR
ErrorSince(old, new) ==
    [ a \in AgentIds |->
        IF new[a].status = "error"
        THEN IF old[a].status = "error" THEN error_since[a] ELSE Some(now)
        ELSE None ]

(* --------------------------- _task_distributor ------------------------- *)
\* an idle set that also offers the agents in ERROR
AvailableAgents_WithError(ags) ==
    SelectSeq([i \in 1..Cardinality(AgentIds) |-> i],
              LAMBDA a : ags[a].status \in {"idle", "error"})

\* the ids of the IDLE agents, in the order of the agents dict
AvailableAgents(ags) ==
    SelectSeq([i \in 1..Cardinality(AgentIds) |-> i],
              LAMBDA a : ags[a].status = "idle")

\* task_queue.pop() instead of pop(0): takes the tail
PopIndex_Tail(q) == Len(q)

\* task_queue.pop(0) takes the head
PopIndex(q) == 1

\* a pop that leaves the task in the list
RemoveAt_Kept(q, i) == q

\* task_queue.pop(i)
RemoveAt(q, i) == SubSeq(q, 1, i - 1) \o SubSeq(q, i + 1, Len(q))

\* the chosen agent left among the candidates
RemoveAgent_Kept(available, a) == available

\* available_agents.remove(agent_id)
RemoveAgent(available, a) == SelectSeq(available, LAMBDA x : x # a)

\* an assignment that leaves the task's start time for the executor to set
AssignTaskToAgent_NoStart(st, t, a) ==
    [ st EXCEPT
        !.agents[a].status = "busy",
        !.agents[a].current_task = Some(t),
        !.agents[a].last_activity = now,
        !.tasks[t].assigned_agent = Some(a),
        !.active = @ \cup {t},
        !.running = @ \cup {[task |-> t, agent |-> a, start_time |-> now]} ]

\* AgentManager._assign_task_to_agent on the loop state st; the
\* _execute_task coroutine it creates is recorded in st.running
AssignTaskToAgent(st, t, a) ==
    [ st EXCEPT
        !.agents[a].status = "busy",
        !.agents[a].current_task = Some(t),
        !.agents[a].last_activity = now,
        !.tasks[t].assigned_agent = Some(a),
        !.tasks[t].started_at = Stamp(now),
        !.active = @ \cup {t},
        !.running = @ \cup {[task |-> t, agent |-> a, start_time |-> now]} ]

\* lines 244-246 for the popped task t and the selector's answer agent_id
AssignSelected(popped, t, agent_id) ==
    IF agent_id # None
    THEN CHOOSE r \in
           { [ AssignTaskToAgent(popped, t, a) EXCEPT
                 !.available = RemoveAgent(@, a),
                 !.batch = Append(@, [task |-> t, agent |-> agent_id]) ] :
             a \in agent_id } : TRUE
    ELSE [popped EXCEPT
            !.batch = Append(@, [task |-> t, agent |-> None])]

\* one iteration of the for loop (lines 241-246)
AssignOne(st) ==
    LET i == PopIndex(st.queue)
        t == st.queue[i]
        popped == [st EXCEPT !.queue = RemoveAt(@, i)]
    IN CHOOSE r \in
         { AssignSelected(popped, t, agent_id) :
           agent_id \in
             { SelectBestAgent(st.tasks[t], st.available, st.agents) } } : TRUE

\* for i in range(tasks_to_assign)
RECURSIVE AssignLoop(_, _)
AssignLoop(st, n) ==
    IF n = 0 THEN st
    ELSE CHOOSE r \in
           { AssignLoop(next, n - 1) : next \in {AssignOne(st)} } : TRUE

\* a distributor coroutine that does not test the flag
DistributorLive_NoFlag ==
    loops["distributor"] > 0

\* a distributor coroutine is live and finds `while self.is_running` true
DistributorLive ==
    /\ loops["distributor"] > 0
    /\ is_running

\* one pass of the while loop of _task_distributor that reaches the for loop
\* (the two early `continue`s only sleep)
TaskDistributor ==
    /\ DistributorLive
    /\ task_queue # << >>
    /\ \E available_agents \in {AvailableAgents(agents)} :
          /\ available_agents # << >>
          /\ \E tasks_to_assign \in
                {Min(Len(task_queue), Len(available_agents))},
                before \in
                { [ queue |-> task_queue,
                    available |-> available_agents,
                    agents |-> agents,
                    tasks |-> tasks,
                    active |-> active_tasks,
                    running |-> running,
                    batch |-> << >> ] } :
             \E st \in {AssignLoop(before, tasks_to_assign)} :
                /\ task_queue' = st.queue
                /\ agents' = st.agents
                /\ tasks' = st.tasks
                /\ active_tasks' = st.active
                /\ running' = st.running
                /\ last_batch' = st.batch
                /\ report' = << >>
    /\ error_since' = ErrorSince(agents, agents')
    /\ reclaimed' = {}
    /\ UNCHANGED << completed_tasks, stats, is_running, loops, now, history,
                    selection >>

(* ----------------------------- _execute_task --------------------------- *)
\* what `await browser_agent.execute_task(task)` can do: return a dict with
\* success true, return a dict with success false, or raise
Outcomes == {"success", "failure", "exception"}

SuccessResult == [success |-> TRUE]
FailureResult == [success |-> FALSE, error |-> "executor error"]

\* lines 336-344: the task after the executor returned a dict
TaskAfterResult(task, success) ==
    IF success
    THEN [task EXCEPT !.completed_at = Stamp(now),
                      !.result = Some(SuccessResult)]
    ELSE [task EXCEPT !.completed_at = Stamp(now),
                      !.result = Some(FailureResult),
                      !.error = Some(FailureResult.error)]

\* an exception handler that records the error only
TaskAfterException_NoStamp(task) ==
    [task EXCEPT !.error = Some("exception")]

\* lines 364-365: the task after the executor raised
TaskAfterException(task) ==
    [task EXCEPT !.error = Some("exception"),
                 !.completed_at = Stamp(now)]

\* a handler that leaves the agent's current_task for the next assignment to
\* overwrite
AgentAfterResult_KeepsTask(agent, success, execution_time) ==
    [agent EXCEPT
        !.completed_tasks = IF success THEN @ + 1 ELSE @,
        !.failed_tasks = IF success THEN @ ELSE @ + 1,
        !.status = "idle",
        !.total_execution_time = @ + execution_time,
        !.last_activity = now]

\* lines 339-353: the agent after the executor returned a dict
AgentAfterResult(agent, success, execution_time) ==
    [agent EXCEPT
        !.completed_tasks = IF success THEN @ + 1 ELSE @,
        !.failed_tasks = IF success THEN @ ELSE @ + 1,
        !.status = "idle",
        !.current_task = None,
        !.total_execution_time = @ + execution_time,
        !.last_activity = now]

\* an exception that is counted and leaves the agent's status as it is
AgentAfterException_StatusKept(agent) ==
    [agent EXCEPT !.failed_tasks = @ + 1]

\* lines 366-367: the agent after the executor raised
AgentAfterException(agent) ==
    [agent EXCEPT !.status = "error",
                  !.failed_tasks = @ + 1]

\* statistics that count a raised exception on the agent only
StatsAfter_ExceptionUncounted(st, outcome) ==
    IF outcome = "success"
    THEN [st EXCEPT !.completed_tasks = @ + 1]
    ELSE IF outcome = "failure"
         THEN [st EXCEPT !.failed_tasks = @ + 1]
         ELSE st

\* lines 341, 346, 368
StatsAfter(st, outcome) ==
    IF outcome = "success"
    THEN [st EXCEPT !.completed_tasks = @ + 1]
    ELSE [st EXCEPT !.failed_tasks = @ + 1]

\* the completed task left in active_tasks
RemoveActive_Kept(active, t) == active

\* lines 356-357 and 371-372: del self.active_tasks[task.id]
RemoveActive(active, t) == active \ {t}

\* the part of _execute_task that runs when the executor call of invocation
\* e ends with the given outcome
ExecuteTask(e, outcome) ==
    /\ e \in running
    /\ LET t == e.task
           a == e.agent
           execution_time == now - e.start_time
       IN /\ tasks' = [tasks EXCEPT ![t] =
                         IF outcome = "exception"
                         THEN TaskAfterException(@)
                         ELSE TaskAfterResult(@, outcome = "success")]
          /\ agents' = [agents EXCEPT ![a] =
                         IF outcome = "exception"
                         THEN AgentAfterException(@)
                         ELSE AgentAfterResult(@, outcome = "success",
                                               execution_time)]
          /\ stats' = StatsAfter(stats, outcome)
          /\ active_tasks' = RemoveActive(active_tasks, t)
          /\ completed_tasks' = Append(completed_tasks, t)
    /\ running' = running \ {e}
    /\ last_batch' = << >>
    /\ report' = << >>
    /\ error_since' = ErrorSince(agents, agents')
    /\ UNCHANGED << task_queue, is_running, loops, now, history, selection,
                    reclaimed >>

(* ----------------------------- _agent_monitor -------------------------- *)
\* a sweep that also stamps the agents it resets
MonitorAgent_Stamps(agent, current_time) ==
    IF agent.status = "busy"
    THEN IF current_time - agent.last_activity > StuckTimeout
         THEN [agent EXCEPT !.status = "idle", !.current_task = None,
                            !.last_activity = current_time]
         ELSE agent
    ELSE IF agent.status = "error"
         THEN IF current_time - agent.last_activity > RecoveryTime
              THEN [agent EXCEPT !.status = "idle",
                                 !.last_activity = current_time]
              ELSE agent
         ELSE agent

\* lines 383-393 for one agent
MonitorAgent(agent, current_time) ==
    IF agent.status = "busy"
    THEN IF current_time - agent.last_activity > StuckTimeout
         THEN [agent EXCEPT !.status = "idle", !.current_task = None]
         ELSE agent
    ELSE IF agent.status = "error"
         THEN IF current_time - agent.last_activity > RecoveryTime
              THEN [agent EXCEPT !.status = "idle"]
              ELSE agent
         ELSE agent

\* the agents the sweep finds BUSY past the stuck timeout (lines 383-384)
Stuck(ags, current_time) ==
    { a \in AgentIds : /\ ags[a].status = "busy"
                       /\ current_time - ags[a].last_activity > StuckTimeout }

\* a sweep that gives up the tasks of the agents it resets: it takes them
\* out of active_tasks and marks them as timed out
AgentMonitor_FailsTasks ==
    /\ loops["monitor"] > 0
    /\ is_running
    /\ agents' = [a \in AgentIds |-> MonitorAgent(agents[a], now)]
    /\ active_tasks' =
          active_tasks \ { t \in active_tasks :
                             \E a \in Stuck(agents, now) :
                                 agents[a].current_task = Some(t) }
    /\ tasks' = [t \in DOMAIN tasks |->
                   IF t \in active_tasks \ active_tasks'
                   THEN [tasks[t] EXCEPT !.error = Some("timeout")]
                   ELSE tasks[t]]
    /\ last_batch' = << >>
    /\ report' = << >>
    /\ error_since' = ErrorSince(agents, agents')
    /\ reclaimed' = reclaimed \cup Stuck(agents, now)
    /\ UNCHANGED << task_queue, completed_tasks, stats,
                    is_running, loops, running, now, history, selection >>

\* one pass of the while loop of _agent_monitor
AgentMonitor ==
    /\ loops["monitor"] > 0
    /\ is_running
    /\ agents' = [a \in AgentIds |-> MonitorAgent(agents[a], now)]
    /\ last_batch' = << >>
    /\ report' = << >>
    /\ error_since' = ErrorSince(agents, agents')
    /\ reclaimed' = reclaimed \cup Stuck(agents, now)
    /\ UNCHANGED << tasks, task_queue, active_tasks, completed_tasks, stats,
                    is_running, loops, running, now, history, selection >>

(* -------------------------- _performance_tracker ----------------------- *)
RECURSIVE Gcd(_, _)
Gcd(a, b) == IF b = 0 THEN a ELSE Gcd(b, a % b)

\* the float n / d (d > 0) as a fraction in lowest terms
Divide(n, d) ==
    LET g == Gcd(n, d) IN Frac(n \div g, d \div g)

\* sum(agent.total_execution_time for agent in self.agents.values())
TotalTime(ags) ==
    SumOver([a \in AgentIds |-> ags[a].total_execution_time], AgentIds)

\* a tracker pass that starts a new measuring period: it also clears the
\* agents' accumulated execution times
PerformanceTracker_ClearsTimes ==
    /\ loops["tracker"] > 0
    /\ is_running
    /\ stats' = IF stats.completed_tasks > 0
                THEN [stats EXCEPT !.average_execution_time =
                        Divide(TotalTime(agents), stats.completed_tasks)]
                ELSE stats
    /\ agents' = [a \in AgentIds |->
                    [agents[a] EXCEPT !.total_execution_time = 0]]
    /\ last_batch' = << >>
    /\ report' = << >>
    /\ UNCHANGED << tasks, task_queue, active_tasks, completed_tasks,
                    is_running, loops, running, now, history,
                    error_since, selection, reclaimed >>

\* one pass of the while loop of _performance_tracker (lines 406-408)
PerformanceTracker ==
    /\ loops["tracker"] > 0
    /\ is_running
    /\ stats' = IF stats.completed_tasks > 0
                THEN [stats EXCEPT !.average_execution_time =
                        Divide(TotalTime(agents), stats.completed_tasks)]
                ELSE stats
    /\ last_batch' = << >>
    /\ report' = << >>
    /\ UNCHANGED << agents, tasks, task_queue, active_tasks, completed_tasks,
                    is_running, loops, running, now, history,
                    error_since, selection, reclaimed >>

(* --------------------------- get_status_report ------------------------- *)
Max(a, b) == IF a > b THEN a ELSE b

\* agent_summary[agent_id] (the name is left out)
AgentSummary(agent) ==
    [ status |-> agent.status,
      completed_tasks |-> agent.completed_tasks,
      failed_tasks |-> agent.failed_tasks,
      success_rate |->
          Divide(agent.completed_tasks * 100,
                 Max(agent.completed_tasks + agent.failed_tasks, 1)),
      average_execution_time |->
          Divide(agent.total_execution_time, Max(agent.completed_tasks, 1)),
      capabilities |-> agent.capabilities ]

\* queue_summary
QueueSummary ==
    [ pending_tasks |-> Len(task_queue),
      active_tasks |-> Cardinality(active_tasks),
      completed_tasks |-> Len(completed_tasks),
      tasks_by_priority |->
          [ priority \in TaskPriority |->
              Cardinality({ i \in 1..Len(task_queue) :
                              tasks[task_queue[i]].priority = priority }) ] ]

\* overall_stats (runtime_seconds and tasks_per_minute, which are computed
\* from the clock and the start time alone, are left out)
OverallStats ==
    [ total_tasks |-> stats.total_tasks,
      completed_tasks |-> stats.completed_tasks,
      failed_tasks |-> stats.failed_tasks,
      average_execution_time |-> stats.average_execution_time,
      active_agents |->
          Cardinality({ a \in AgentIds : agents[a].status = "busy" }),
      idle_agents |->
          Cardinality({ a \in AgentIds : agents[a].status = "idle" }) ]

\* AgentManager.get_status_report: builds and returns the report
GetStatusReport ==
    /\ report' = << [ agents |-> [a \in AgentIds |-> AgentSummary(agents[a])],
                      queue |-> QueueSummary,
                      statistics |-> OverallStats,
                      timestamp |-> now ] >>
    /\ last_batch' = << >>
    /\ UNCHANGED << agents, tasks, task_queue, active_tasks, completed_tasks,
                    stats, is_running, loops, running, now, history,
                    error_since, selection, reclaimed >>

(* ---------------------- start_execution, stop_execution ---------------- *)
\* AgentManager.start_execution while fewer than max_loops coroutines of each
\* loop are live: returns at once when already running, else sets the flag
\* and launches one coroutine of each loop, beside those launched earlier
\* that have not returned
StartExecutionWithin(max_loops) ==
    /\ IF is_running
       THEN UNCHANGED << is_running, loops >>
       ELSE /\ \A k \in LoopKinds : loops[k] < max_loops
            /\ is_running' = TRUE
            /\ loops' = [k \in LoopKinds |-> loops[k] + 1]
    /\ last_batch' = << >>
    /\ report' = << >>
    /\ UNCHANGED << agents, tasks, task_queue, active_tasks, completed_tasks,
                    stats, running, now, history,
                    error_since, selection, reclaimed >>

\* start_execution without the test of is_running
StartExecution_NoGuard ==
    /\ is_running' = TRUE
    /\ loops' = [k \in LoopKinds |-> loops[k] + 1]
    /\ last_batch' = << >>
    /\ report' = << >>
    /\ UNCHANGED << agents, tasks, task_queue, active_tasks, completed_tasks,
                    stats, running, now, history,
                    error_since, selection, reclaimed >>

\* AgentManager.start_execution, with the loops launched at most MaxLoops
\* times
StartExecution == StartExecutionWithin(MaxLoops)

\* a stop_execution that also cancels the in-flight invocations
StopExecution_Cancels ==
    /\ is_running' = FALSE
    /\ running' = {}
    /\ last_batch' = << >>
    /\ report' = << >>
    /\ UNCHANGED << agents, tasks, task_queue, active_tasks, completed_tasks,
                    stats, loops, now, history,
                    error_since, selection, reclaimed >>

\* AgentManager.stop_execution
StopExecution ==
    /\ is_running' = FALSE
    /\ last_batch' = << >>
    /\ report' = << >>
    /\ UNCHANGED << agents, tasks, task_queue, active_tasks, completed_tasks,
                    stats, loops, running, now, history,
                    error_since, selection, reclaimed >>

\* a background loop finds `while self.is_running` false and returns
LoopExit(k) ==
    /\ loops[k] > 0
    /\ ~is_running
    /\ loops' = [loops EXCEPT ![k] = @ - 1]
    /\ last_batch' = << >>
    /\ report' = << >>
    /\ UNCHANGED << agents, tasks, task_queue, active_tasks, completed_tasks,
                    stats, is_running, running, now, history,
                    error_since, selection, reclaimed >>

(* -------------------------------- time --------------------------------- *)
\* The clock is read only to age a BUSY or ERROR agent and to time an in-flight
\* invocation, so it advances only while there is one
Tick ==
    /\ now < MaxTime
    /\ \/ running # {}
       \/ \E a \in AgentIds : agents[a].status \in {"busy", "error"}
    /\ now' = now + TickStep
    /\ last_batch' = << >>
    /\ report' = << >>
    /\ UNCHANGED << agents, tasks, task_queue, active_tasks, completed_tasks,
                    stats, is_running, loops, running, history,
                    error_since, selection, reclaimed >>

(* ---------------------------- specification ---------------------------- *)
Next ==
    \/ \E in \in TaskInputs : AddTask(in[1], in[2])
    \/ StartExecution
    \/ StopExecution
    \/ TaskDistributor
    \/ \E e \in running, outcome \in Outcomes : ExecuteTask(e, outcome)
    \/ AgentMonitor
    \/ PerformanceTracker
    \/ Tick

\* the manager with its loops launched at most once
Spec == Init /\ [][Next]_vars

\* the same with the loops returning after stop_execution, and started again
NextLifecycle ==
    \/ Next
    \/ \E k \in LoopKinds : LoopExit(k)

SpecLifecycle == Init /\ [][NextLifecycle]_vars

\* a newly built manager that is given tasks of one kind, started, stopped
\* and started again
StopInputs == { in \in TaskInputs : in[1] = NORMAL }

InitStop ==
    /\ Init
    /\ history = [a \in AgentIds |-> 0]

NextStop ==
    \/ \E in \in StopInputs : AddTask(in[1], in[2])
    \/ StartExecution
    \/ StopExecution
    \/ TaskDistributor
    \/ \E e \in running, outcome \in Outcomes : ExecuteTask(e, outcome)
    \/ AgentMonitor
    \/ PerformanceTracker
    \/ Tick
    \/ \E k \in LoopKinds : LoopExit(k)

SpecStop == InitStop /\ [][NextStop]_vars

\* the same manager when start_execution may be called again after
\* stop_execution while the loops launched before are still asleep: up to
\* MaxLiveLoops coroutines of each loop
MaxLiveLoops == 2

NextRestart ==
    \/ \E in \in StopInputs : AddTask(in[1], in[2])
    \/ StartExecutionWithin(MaxLiveLoops)
    \/ StopExecution
    \/ TaskDistributor
    \/ \E e \in running, outcome \in Outcomes : ExecuteTask(e, outcome)
    \/ AgentMonitor
    \/ PerformanceTracker
    \/ Tick
    \/ \E k \in LoopKinds : LoopExit(k)

SpecRestart == InitStop /\ [][NextRestart]_vars

(* ------------------- _select_best_agent on its own -------------------- *)
\* the arguments of one call of _select_best_agent: a task, two agents with
\* any capability set and counters of the sets below, and a candidate list
SelCapabilities == { {"scraping"}, {"general"} }
SelCompleted == {0, 1, 10, 49, 110}
SelFailed == {0, 1, 700}
SelDescriptions == { <<"S","c","r","a","p","e">>, <<"p","i","n","g">> }
SelCandidates == { << >>, << 1 >>, << 2 >>, << 1, 2 >>, << 2, 1 >> }

SelAgents ==
    { [ capabilities |-> caps,
        status |-> "idle",
        current_task |-> None,
        completed_tasks |-> c,
        failed_tasks |-> f,
        total_execution_time |-> 0,
        last_activity |-> 0 ] :
      caps \in SelCapabilities, c \in SelCompleted, f \in SelFailed }

InitSelect ==
    /\ history = [a \in InitialAgentIds(MaxAgents) |-> 0]
    /\ agents = [a \in InitialAgentIds(MaxAgents) |-> NewAgent(a, history[a])]
    /\ tasks = << >>
    /\ task_queue = << >>
    /\ active_tasks = {}
    /\ completed_tasks = << >>
    /\ stats = [ total_tasks |-> 0, completed_tasks |-> 0, failed_tasks |-> 0,
                 average_execution_time |-> Frac(0, 1) ]
    /\ is_running = FALSE
    /\ loops = [k \in LoopKinds |-> 0]
    /\ running = {}
    /\ now = 0
    /\ last_batch = << >>
    /\ report = << >>
    /\ error_since = [a \in InitialAgentIds(MaxAgents) |-> None]
    /\ reclaimed = {}
    /\ selection \in
          { [ task |-> NewTask(1, LOW, d), ags |-> ags, available |-> av,
              result |-> None, done |-> FALSE ] :
            d \in SelDescriptions, ags \in [1..2 -> SelAgents],
            av \in SelCandidates }

\* the call self._select_best_agent(task, available_agents)
SelectCall ==
    /\ ~selection.done
    /\ selection' = [selection EXCEPT
                       !.result = SelectBestAgent(selection.task,
                                                  selection.available,
                                                  selection.ags),
                       !.done = TRUE]
    /\ UNCHANGED << agents, tasks, task_queue, active_tasks, completed_tasks,
                    stats, is_running, loops, running, now, history,
                    last_batch, error_since, reclaimed, report >>

SpecSelect == InitSelect /\ [][SelectCall]_vars

(* ----------------- _extract_task_requirements on its own --------------- *)
\* the pieces the descriptions of the calls are put together from, and how
\* many pieces a description has at most
MaxFragments == 4

ExtractFragments ==
    { <<"F","O","R","M">>, <<"f","o","r">>, <<"m">>,
      <<"S","c","r","a","p","e">>, <<"E","x","t","r","a","c","t">>,
      <<"t","E","s","T">>, <<"M","O","N","I","T","O","R">>,
      <<"m","o","n","i">>, <<"t","o","r">>, <<"p","i","n","g"," ">> }

RECURSIVE Descriptions(_)
Descriptions(n) ==
    IF n = 0 THEN { << >> }
    ELSE LET shorter == Descriptions(n - 1)
         IN shorter \cup { d \o f : d \in shorter, f \in ExtractFragments }

InitExtract ==
    /\ history = [a \in InitialAgentIds(MaxAgents) |-> 0]
    /\ agents = [a \in InitialAgentIds(MaxAgents) |-> NewAgent(a, history[a])]
    /\ tasks = << >>
    /\ task_queue = << >>
    /\ active_tasks = {}
    /\ completed_tasks = << >>
    /\ stats = [ total_tasks |-> 0, completed_tasks |-> 0, failed_tasks |-> 0,
                 average_execution_time |-> Frac(0, 1) ]
    /\ is_running = FALSE
    /\ loops = [k \in LoopKinds |-> 0]
    /\ running = {}
    /\ now = 0
    /\ last_batch = << >>
    /\ report = << >>
    /\ error_since = [a \in InitialAgentIds(MaxAgents) |-> None]
    /\ reclaimed = {}
    /\ selection \in
          { [ description |-> d, requirements |-> << >>, done |-> FALSE ] :
            d \in Descriptions(MaxFragments) }

\* the call self._extract_task_requirements(task.description)
ExtractCall ==
    /\ ~selection.done
    /\ selection' = [selection EXCEPT
                       !.requirements =
                           ExtractTaskRequirements(selection.description),
                       !.done = TRUE]
    /\ UNCHANGED << agents, tasks, task_queue, active_tasks, completed_tasks,
                    stats, is_running, loops, running, now, history,
                    last_batch, error_since, reclaimed, report >>

SpecExtract == InitExtract /\ [][ExtractCall]_vars

(* --------------------- demo_multi_agent_system ------------------------ *)
\* AgentManager(max_agents=3)
DemoAgents == 3

\* MockBrowserAgent.execute_task sleeps min(task.timeout, 5) seconds and
\* returns a dict; every sample task has timeout >= 10
ExecutorBound == 5

\* the (priority, description) of the five sample tasks, in list order
DemoTasks ==
    <<
       << HIGH,
         <<"E","x","t","r","a","c","t"," ","p","r","o","d","u","c","t",
           " ","i","n","f","o","r","m","a","t","i","o","n"," ","f","r",
           "o","m"," ","e","-","c","o","m","m","e","r","c","e"," ","s",
           "i","t","e">> >>,
       << NORMAL,
         <<"C","o","m","p","l","e","t","e"," ","u","s","e","r"," ","r",
           "e","g","i","s","t","r","a","t","i","o","n"," ","f","o","r",
           "m"," ","w","i","t","h"," ","t","e","s","t"," ","d","a","t",
           "a">> >>,
       << CRITICAL,
         <<"R","u","n"," ","p","e","r","f","o","r","m","a","n","c","e",
           " ","t","e","s","t","s"," ","o","n"," ","l","a","n","d","i",
           "n","g"," ","p","a","g","e">> >>,
       << LOW,
         <<"C","h","e","c","k"," ","s","y","s","t","e","m"," ","h","e",
           "a","l","t","h"," ","a","n","d"," ","a","v","a","i","l","a",
           "b","i","l","i","t","y">> >>,
       << HIGH,
         <<"V","a","l","i","d","a","t","e"," ","f","o","r","m"," ","d",
           "a","t","a"," ","a","n","d"," ","b","u","s","i","n","e","s",
           "s"," ","r","u","l","e","s">> >>
    >>

\* the for loop of add_tasks_batch: add_task for each input in turn, on the
\* state st of tasks, queue and stats
RECURSIVE AddTasksLoop(_, _)
AddTasksLoop(st, inputs) ==
    IF inputs = << >> THEN st
    ELSE LET id == Len(st.tasks) + 1
             ts == Append(st.tasks,
                          NewTask(id, Head(inputs)[1], Head(inputs)[2]))
         IN AddTasksLoop(
              [ tasks |-> ts,
                queue |-> SortQueue(Append(st.queue, id), ts),
                stats |-> [st.stats EXCEPT !.total_tasks = @ + 1] ],
              Tail(inputs))

\* the manager of the demo after initialize and
\* manager.add_tasks_batch(sample_tasks)
InitDemo ==
    /\ history = [a \in InitialAgentIds(DemoAgents) |-> 0]
    /\ agents = [a \in InitialAgentIds(DemoAgents) |-> NewAgent(a, 0)]
    /\ now = 0
    /\ LET st == AddTasksLoop(
                   [ tasks |-> << >>, queue |-> << >>,
                     stats |-> [ total_tasks |-> 0, completed_tasks |-> 0,
                                 failed_tasks |-> 0,
                                 average_execution_time |-> Frac(0, 1) ] ],
                   DemoTasks)
       IN /\ tasks = st.tasks
          /\ task_queue = st.queue
          /\ stats = st.stats
    /\ active_tasks = {}
    /\ completed_tasks = << >>
    /\ is_running = FALSE
    /\ loops = [k \in LoopKinds |-> 0]
    /\ running = {}
    /\ last_batch = << >>
    /\ report = << >>
    /\ error_since = [a \in InitialAgentIds(DemoAgents) |-> None]
    /\ selection = << >>
    /\ reclaimed = {}

\* asyncio.create_task(manager.start_execution())
DemoStart ==
    /\ ~is_running
    /\ StartExecution

\* an executor call has slept its time and returns its dict, with success
\* true or false
ExecutorReturns ==
    \E e \in running, outcome \in {"success", "failure"} :
        /\ now - e.start_time >= ExecutorBound
        /\ ExecuteTask(e, outcome)

\* the clock moves on by the executor's sleep unless a call has slept it out
\* and is about to return
DemoTick ==
    /\ running # {}
    /\ \A e \in running : now - e.start_time < ExecutorBound
    /\ now' = now + ExecutorBound
    /\ last_batch' = << >>
    /\ report' = << >>
    /\ UNCHANGED << agents, tasks, task_queue, active_tasks, completed_tasks,
                    stats, is_running, loops, running, history,
                    error_since, selection, reclaimed >>

NextDemo ==
    \/ DemoStart
    \/ TaskDistributor
    \/ ExecutorReturns
    \/ AgentMonitor
    \/ PerformanceTracker
    \/ DemoTick

\* the event loop runs every coroutine that is ready: the demo's own calls,
\* the dispatcher pass and the continuation of a returned executor call; and
\* time passes
SpecDemo ==
    /\ InitDemo
    /\ [][NextDemo]_vars
    /\ WF_vars(DemoStart)
    /\ WF_vars(TaskDistributor)
    /\ WF_vars(ExecutorReturns)
    /\ WF_vars(DemoTick)

\* the demo with its get_status_report calls, which the monitoring loop of
\* demo_multi_agent_system makes between its sleeps
NextReport ==
    \/ NextDemo
    \/ GetStatusReport

SpecReport == InitDemo /\ [][NextReport]_vars

(* ======================================================================= *)
(*                               properties                                *)
(* ======================================================================= *)
Submitted == 1..Len(tasks)
Queued == ToSet(task_queue)
Completed == ToSet(completed_tasks)

\* in how many of the three collections task t is
Memberships(t) ==
    (IF t \in Queued THEN 1 ELSE 0)
    + (IF t \in active_tasks THEN 1 ELSE 0)
    + (IF t \in Completed THEN 1 ELSE 0)

Occurrences(q, t) == Cardinality({ i \in 1..Len(q) : q[i] = t })

\* C1: every submitted task is in exactly one of task_queue, active_tasks and
\* completed_tasks.
C1_NoTaskLost ==
    \A t \in Submitted : Memberships(t) = 1

\* C2: a task is in at most one of task_queue, active_tasks and
\* completed_tasks, and at most once in task_queue and in completed_tasks.
C2_NoTaskDuplicated ==
    \A t \in Submitted :
        /\ Memberships(t) <= 1
        /\ Occurrences(completed_tasks, t) <= 1
        /\ Occurrences(task_queue, t) <= 1

\* C2 witness: one task is queued, another active and a third completed.
C2_Witness ==
    /\ task_queue # << >>
    /\ active_tasks # {}
    /\ completed_tasks # << >>

\* C3: a task whose completed_at is set has exactly one of result and error
\* populated.
C3_ResultXorError ==
    \A t \in Submitted :
        tasks[t].completed_at # None
            => ((tasks[t].result # None) # (tasks[t].error # None))

\* C4: an agent's current_task is set if and only if its status is BUSY.
C4_CurrentTaskIffBusy ==
    \A a \in AgentIds :
        (agents[a].current_task # None) <=> (agents[a].status = "busy")

\* C5: when the invocation for task T on agent A ends and T is not A's
\* current task any more, the step leaves every field of A unchanged.
C5_DelayedCompletionKeepsAgent ==
    [][ \A e \in running :
          (e \notin running' /\ agents[e.agent].current_task # Some(e.task))
              => agents'[e.agent] = agents[e.agent] ]_vars

\* the in-flight invocations running on agent a
InFlight(a) == { e \in running : e.agent = a }

\* C6: every agent has at most one in-flight executor invocation.
C6_OneInvocationPerAgent ==
    \A a \in AgentIds : Cardinality(InFlight(a)) <= 1

\* C7: no two tasks dispatched in one batch have the same assigned_agent.
C7_NoDoubleAssignmentInBatch ==
    \A i, j \in 1..Len(last_batch) :
        i # j =>
            \/ tasks[last_batch[i].task].assigned_agent = None
            \/ tasks[last_batch[i].task].assigned_agent
                 # tasks[last_batch[j].task].assigned_agent

\* C7 witness: a batch that assigned two tasks.
C7_Witness ==
    /\ Len(last_batch) = 2
    /\ \A i \in 1..2 : tasks[last_batch[i].task].assigned_agent # None

\* C8: task_queue is in non-increasing priority order, and the tasks a batch
\* pops come out in non-increasing priority order.
C8_QueueSortedByPriority ==
    /\ \A i, j \in 1..Len(task_queue) :
          i < j => Priority(tasks, task_queue[i]) >= Priority(tasks, task_queue[j])
    /\ \A i, j \in 1..Len(last_batch) :
          i < j => Priority(tasks, last_batch[i].task)
                     >= Priority(tasks, last_batch[j].task)

\* C8 witness: submitted as LOW, CRITICAL, NORMAL and queued as CRITICAL,
\* NORMAL, LOW.
C8_Witness ==
    /\ Len(tasks) = 3
    /\ tasks[1].priority = LOW
    /\ tasks[2].priority = CRITICAL
    /\ tasks[3].priority = NORMAL
    /\ task_queue = << 2, 3, 1 >>

\* task ids are given in submission order
EnqueuedBefore(a, b) == a < b

\* C9: two queued tasks of equal priority are in submission order, and a task
\* that has left the queue was not submitted after a queued task of its
\* priority.
C9_FifoAmongEqualPriority ==
    /\ \A i, j \in 1..Len(task_queue) :
          (i < j /\ Priority(tasks, task_queue[i]) = Priority(tasks, task_queue[j]))
              => EnqueuedBefore(task_queue[i], task_queue[j])
    /\ \A i, j \in 1..Len(last_batch) :
          (i < j /\ Priority(tasks, last_batch[i].task)
                      = Priority(tasks, last_batch[j].task))
              => EnqueuedBefore(last_batch[i].task, last_batch[j].task)
    /\ \A b \in 1..Len(last_batch), i \in 1..Len(task_queue) :
          Priority(tasks, last_batch[b].task) = Priority(tasks, task_queue[i])
              => EnqueuedBefore(last_batch[b].task, task_queue[i])

\* C9 witness: two tasks of one priority are queued behind a task that was
\* submitted after them.
C9_Witness ==
    /\ Len(task_queue) = 3
    /\ Priority(tasks, task_queue[2]) = Priority(tasks, task_queue[3])
    /\ EnqueuedBefore(task_queue[3], task_queue[1])

\* the tasks still queued when the batch makes its i-th pop
QueuedAtPop(i) ==
    { last_batch[j].task : j \in (i + 1)..Len(last_batch) } \cup Queued

\* C10: when the dispatcher pops a task, no task still queued has a strictly
\* higher priority.
C10_HighestPriorityFirst ==
    \A i \in 1..Len(last_batch) :
        \A u \in QueuedAtPop(i) :
            Priority(tasks, u) <= Priority(tasks, last_batch[i].task)

\* C10 witness: a CRITICAL task was popped and a lower task stays queued.
C10_Witness ==
    /\ last_batch # << >>
    /\ task_queue # << >>
    /\ Priority(tasks, last_batch[1].task) = CRITICAL
    /\ Priority(tasks, task_queue[1]) < CRITICAL

(* --------------------------- the selector ------------------------------ *)
\* the score the selector gives candidate a of the recorded call
SelScore(a) ==
    Score(selection.ags[a], selection.ags[a].capabilities,
          ExtractTaskRequirements(selection.task.description))

\* candidate position i holds a maximal score and no earlier position does
FirstOfMaximalScore(i) ==
    LET av == selection.available
    IN /\ \A j \in 1..Len(av) : ~FracGt(SelScore(av[j]), SelScore(av[i]))
       /\ \A j \in 1..(i - 1) : FracGt(SelScore(av[i]), SelScore(av[j]))

\* C11: for a non-empty candidate list the selector returns the first
\* candidate of maximal score; it returns None only for the empty list.
C11_FirstOfMaximalScore ==
    selection.done =>
        LET av == selection.available
        IN IF av = << >>
           THEN selection.result = None
           ELSE \E i \in 1..Len(av) :
                  /\ FirstOfMaximalScore(i)
                  /\ selection.result = Some(av[i])

\* both agents are candidates, s has exactly the capability "scraping", g
\* exactly "general", and the description contains "scrape"
ScrapingCase(s, g) ==
    /\ ToSet(selection.available) = {s, g}
    /\ s # g
    /\ selection.ags[s].capabilities = {"scraping"}
    /\ selection.ags[g].capabilities = {"general"}
    /\ Contains(Lower(selection.task.description), KwScrape)

\* C12 as stated: the scraping agent is chosen for a "scrape" task whatever
\* the counters of the two agents.
C12_ScrapingAgentChosen ==
    selection.done =>
        \A s, g \in 1..2 : ScrapingCase(s, g) => selection.result = Some(s)

\* C12 amended: the scraping agent is chosen for a "scrape" task when it has
\* completed fewer than 50 tasks, whatever the other counters.
C12_ScrapingAgentChosenBelow50 ==
    selection.done =>
        \A s, g \in 1..2 :
            (ScrapingCase(s, g) /\ selection.ags[s].completed_tasks < 50)
                => selection.result = Some(s)

\* C12 witness: the scraping agent, second in the list with 49 completed and
\* 700 failed tasks, wins against an unused general agent.
C12_Witness ==
    /\ selection.done
    /\ ScrapingCase(2, 1)
    /\ selection.available = << 1, 2 >>
    /\ selection.ags[2].completed_tasks = 49
    /\ selection.ags[2].failed_tasks = 700
    /\ selection.ags[1].completed_tasks = 0
    /\ selection.result = Some(2)

\* both agents are candidates with the same capability set, a has completed
\* no task and b has completed 10
LoadCase(a, b) ==
    /\ ToSet(selection.available) = {a, b}
    /\ a # b
    /\ selection.ags[a].capabilities = selection.ags[b].capabilities
    /\ selection.ags[a].completed_tasks = 0
    /\ selection.ags[b].completed_tasks = 10

\* C13: of two agents with the same capabilities the one with 0 completed
\* tasks is chosen over the one with 10, for any task, order and failed counts.
C13_UnusedAgentPreferred ==
    selection.done =>
        \A a, b \in 1..2 : LoadCase(a, b) => selection.result = Some(a)

\* C13 witness: the unused agent is second in the list, has failures, and is
\* chosen.
C13_Witness ==
    /\ selection.done
    /\ LoadCase(2, 1)
    /\ selection.available = << 1, 2 >>
    /\ selection.ags[2].failed_tasks = 700
    /\ selection.ags[1].failed_tasks = 0
    /\ selection.result = Some(2)

(* ------------------------- the health monitor -------------------------- *)
\* the dispatcher's next pass would compute its idle set in this state
IdleSetComputed ==
    /\ DistributorLive
    /\ task_queue # << >>

\* C14: an agent a sweep found BUSY past the stuck threshold is IDLE with no
\* current task after the sweep and is in the idle set of the dispatcher's
\* next pass.
C14_StuckAgentSelectable ==
    \A a \in reclaimed :
        IdleSetComputed =>
            /\ agents[a].status = "idle"
            /\ agents[a].current_task = None
            /\ a \in ToSet(AvailableAgents(agents))

\* C15 (finite-run form): every submitted task is still queued or has been
\* assigned to an agent; only the dispatcher assigns, and only tasks it pops
\* from the queue, so a task that left the queue unassigned is never assigned.
C15_QueuedTaskAssigned ==
    \A t \in Submitted :
        t \in Queued \/ tasks[t].assigned_agent # None

(* ----------------------- the raising executor call --------------------- *)
\* C16: when the executor call raises, the handler updates the agent as for a
\* structured failure (failed_tasks + 1, total_execution_time accumulated,
\* current_task cleared, last_activity = now) except that status is ERROR,
\* sets the task's completed_at and error, and moves the task from
\* active_tasks to completed_tasks.
C16_ExceptionLikeFailure ==
    [][ \A e \in running :
          ExecuteTask(e, "exception") =>
            /\ agents'[e.agent] =
                 [ AgentAfterResult(agents[e.agent], FALSE, now - e.start_time)
                     EXCEPT !.status = "error" ]
            /\ tasks'[e.task].completed_at # None
            /\ tasks'[e.task].error # None
            /\ e.task \notin active_tasks'
            /\ completed_tasks' = Append(completed_tasks, e.task) ]_vars

\* the recovery threshold has passed since agent a entered ERROR
RecoveryDue(a) ==
    \E entered \in error_since[a] : now - entered > RecoveryTime

\* C17: an ERROR agent stays ERROR with its fields untouched by any assignment
\* until a monitor sweep at which more than the recovery threshold has passed
\* since it entered ERROR, and at such a sweep it becomes IDLE.
C17_ErrorUntilRecoverySweep ==
    [][ \A a \in AgentIds :
          agents[a].status = "error" =>
            IF AgentMonitor /\ RecoveryDue(a)
            THEN agents'[a].status = "idle"
            ELSE /\ agents'[a].status = "error"
                 /\ agents'[a].current_task = agents[a].current_task ]_vars

(* ------------------------ start and stop ------------------------------- *)
\* the state of the manager: its fields, its live loops and its invocations
ManagerState ==
    << agents, tasks, task_queue, active_tasks, completed_tasks, stats,
       is_running, loops, running >>

\* C18: start_execution on a running manager launches no loop and changes no
\* manager state, and stop_execution on a stopped manager changes no manager
\* state (stopping twice is stopping once).
C18_StartStopIdempotent ==
    [][ /\ (is_running /\ StartExecution) => UNCHANGED ManagerState
        /\ (~is_running /\ StopExecution) => UNCHANGED ManagerState ]_vars

\* C18 witness: the manager was started and stopped with work queued and in
\* flight and its loops still live: the state a second stop is called in.
C18_Witness ==
    /\ ~is_running
    /\ \A k \in LoopKinds : loops[k] = 1
    /\ task_queue # << >>
    /\ running # {}

\* the tasks of queue q that are in the set old, in the order of q
Kept(q, old) == SelectSeq(q, LAMBDA t : t \in old)

\* C19: once the running flag is cleared, no step moves a task from task_queue
\* to active_tasks or takes an agent from IDLE to BUSY, and the tasks in the
\* queue stay there in the same order.
C19_NoAssignmentAfterStop ==
    [][ ~is_running =>
          /\ Kept(task_queue', Queued) = task_queue
          /\ active_tasks' \subseteq active_tasks
          /\ \A a \in AgentIds :
               agents[a].status = "idle" => agents'[a].status # "busy" ]_vars

\* C19 witness: the manager is stopped while a task is queued, an agent is
\* IDLE and the distributor coroutine has not returned yet.
C19_Witness ==
    /\ ~is_running
    /\ loops["distributor"] > 0
    /\ task_queue # << >>
    /\ AvailableAgents(agents) # << >>
    /\ active_tasks # {}

\* C20: stop_execution cancels nothing: it leaves the in-flight invocations,
\* active_tasks and completed_tasks as they are; a pending invocation can
\* still end after the stop and whenever one ends its task moves from
\* active_tasks to completed_tasks; a stopped manager runs no loop body and
\* each live loop returns at its next test of the flag.
C20_StopLetsWorkFinish ==
    [][ /\ StopExecution =>
             UNCHANGED << running, active_tasks, completed_tasks, tasks >>
        /\ \A e \in running :
             /\ ENABLED ExecuteTask(e, "success")
             /\ e \notin running' =>
                  /\ e.task \notin active_tasks'
                  /\ completed_tasks' = Append(completed_tasks, e.task)
                  /\ tasks'[e.task].completed_at # None
        /\ ~is_running =>
             /\ ~(TaskDistributor \/ AgentMonitor \/ PerformanceTracker)
             /\ \A k \in LoopKinds : loops[k] > 0 => ENABLED LoopExit(k) ]_vars

\* C20 witness: after stop_execution the three loops have returned, one task
\* has completed and another invocation is still in flight with its task in
\* active_tasks.
C20_Witness ==
    /\ ~is_running
    /\ \A k \in LoopKinds : loops[k] = 0
    /\ completed_tasks # << >>
    /\ \E e \in running : e.task \in active_tasks

(* ------------------------------ the demo ------------------------------- *)
\* queue and active set are empty and the five sample tasks are completed
DemoDone ==
    /\ task_queue = << >>
    /\ active_tasks = {}
    /\ Len(completed_tasks) = Len(DemoTasks)

\* C21: with the five sample tasks submitted to the 3-agent pool and executor
\* calls that always return a dict, the started manager eventually has an
\* empty queue, no active task and five completed tasks.
C21_DemoCompletes == <>DemoDone

\* C21 witness: all five sample tasks are completed by the three agents, some
\* with success and some with failure.
C21_Witness ==
    /\ DemoDone
    /\ Len(DemoTasks) = 5
    /\ Cardinality(AgentIds) = DemoAgents
    /\ stats.completed_tasks > 0
    /\ stats.failed_tasks > 0

(* ------------------------------ C22 ------------------------------------ *)
\* the executor invocations a step creates
Handed == running' \ running

\* C22: a failed task is never retried.  In every step, a task that has left
\* task_queue is not put back; an executor invocation is created only for a task
\* that was in task_queue before the step, that task is out of task_queue after
\* the step and gets one invocation only; and no task's retry_count changes.
C22_FailedTaskNeverRetried ==
    [][ /\ \A t \in Submitted :
             /\ t \notin Queued => t \notin ToSet(task_queue')
             /\ tasks'[t].retry_count = tasks[t].retry_count
        /\ \A e \in Handed :
             /\ e.task \in Queued
             /\ e.task \notin ToSet(task_queue')
             /\ \A f \in Handed : f.task = e.task => f = e ]_vars

\* a task failed with retries left, while the dispatcher is live and an agent
\* is free to take work
C22_Witness ==
    /\ DistributorLive
    /\ \E t \in Completed :
          /\ tasks[t].error # None
          /\ tasks[t].retry_count > 0
          /\ t \notin Queued
          /\ \E e \in running : e.task # t
    /\ \E a \in AgentIds : agents[a].status = "idle"
    /\ task_queue # << >>

(* ------------------------------ C23 ------------------------------------ *)
\* agents in ERROR past the recovery time
Recoverable(ags, current_time) ==
    { a \in AgentIds : /\ ags[a].status = "error"
                       /\ current_time - ags[a].last_activity > RecoveryTime }

\* C23: a sweep of the health monitor changes the status and current_task of
\* agents that are BUSY past the stuck threshold and the status of agents that
\* are ERROR past the recovery threshold, and nothing else: every other agent
\* and every counter and last_activity of every agent stay as they are, and so
\* do task_queue, active_tasks, completed_tasks, the statistics and every task.
C23_SweepChangesOnlyDueAgents ==
    [][ AgentMonitor =>
          /\ \A a \in AgentIds :
                /\ [agents'[a] EXCEPT !.status = agents[a].status,
                                      !.current_task = agents[a].current_task]
                     = agents[a]
                /\ agents'[a].status # agents[a].status
                     => a \in Stuck(agents, now) \cup Recoverable(agents, now)
                /\ agents'[a].current_task # agents[a].current_task
                     => a \in Stuck(agents, now)
          /\ UNCHANGED << tasks, task_queue, active_tasks, completed_tasks,
                          stats >> ]_vars

\* a sweep has just reset a stuck agent, whose last_activity is still the old
\* one, and has left another agent that is BUSY or ERROR as it was
C23_Witness ==
    /\ last_batch = << >>
    /\ \E a \in reclaimed, b \in AgentIds :
          /\ a # b
          /\ agents[a].status = "idle"
          /\ agents[a].current_task = None
          /\ now - agents[a].last_activity > StuckTimeout
          /\ agents[b].status \in {"busy", "error"}

(* ------------------------------ C24 ------------------------------------ *)
\* C24: a pass of the performance tracker and a call of get_status_report
\* leave every agent, every task, task_queue, active_tasks and completed_tasks
\* as they are; the tracker writes stats.average_execution_time only and the
\* report writes no statistic.
C24_TrackerAndReportReadOnly ==
    [][ (PerformanceTracker \/ GetStatusReport) =>
          /\ UNCHANGED << agents, tasks, task_queue, active_tasks,
                          completed_tasks >>
          /\ [stats' EXCEPT !.average_execution_time =
                              stats.average_execution_time] = stats
          /\ GetStatusReport => stats' = stats ]_vars

\* a report was just taken while work is in flight, after the tracker wrote an
\* average
C24_Witness ==
    /\ report # << >>
    /\ report[1].queue.active_tasks > 0
    /\ report[1].queue.completed_tasks > 0
    /\ report[1].statistics.average_execution_time # Frac(0, 1)

(* ------------------------------ C25 ------------------------------------ *)
\* task t is assigned to agent a, with every mark of the assignment
AssignedTo(t, a) ==
    /\ agents[a].status = "busy"
    /\ agents[a].current_task = Some(t)
    /\ tasks[t].assigned_agent = Some(a)
    /\ tasks[t].started_at # None
    /\ t \in active_tasks
    /\ t \notin Queued

\* C25: assignment is one step.  Whenever a step gives a task an agent or a
\* start time or puts it in active_tasks, or makes an agent BUSY, the state
\* after that step has the whole assignment: the agent is BUSY with
\* current_task the task, the task has that agent and a start time, is in
\* active_tasks and is not in task_queue.
C25_AssignmentAtomic ==
    [][ /\ \A t \in Submitted :
             ( \/ tasks'[t].assigned_agent # tasks[t].assigned_agent
               \/ tasks'[t].started_at # tasks[t].started_at
               \/ t \in active_tasks' \ active_tasks )
             => \E a \in AgentIds : AssignedTo(t, a)'
        /\ \A a \in AgentIds :
             (agents[a].status # "busy" /\ agents'[a].status = "busy")
             => \E t \in Submitted : AssignedTo(t, a)' ]_vars

\* a batch has just assigned a task, later than the start of the run, while
\* an earlier task is already completed
C25_Witness ==
    /\ now > 0
    /\ completed_tasks # << >>
    /\ \E i \in 1..Len(last_batch), a \in AgentIds :
          /\ last_batch[i].agent = Some(a)
          /\ AssignedTo(last_batch[i].task, a)

(* ------------------------------ C26 ------------------------------------ *)
\* C26: when the executor returns a dict for task T on agent A, one step sets
\* T.completed_at, adds 1 to exactly one of A.completed_tasks and
\* A.failed_tasks, makes A IDLE with no current_task, and moves T from
\* active_tasks to the end of completed_tasks.  It is checked for every
\* return, and so for those where no sweep reclaimed A meanwhile.
C26_StructuredResultHandledAtOnce ==
    [][ \A e \in running :
          ( ExecuteTask(e, "success") \/ ExecuteTask(e, "failure") )
          => /\ tasks[e.task].completed_at = None
             /\ tasks'[e.task].completed_at # None
             /\ tasks'[e.task].result # None
             /\ << agents'[e.agent].completed_tasks,
                   agents'[e.agent].failed_tasks >>
                  \in { << agents[e.agent].completed_tasks + 1,
                           agents[e.agent].failed_tasks >>,
                        << agents[e.agent].completed_tasks,
                           agents[e.agent].failed_tasks + 1 >> }
             /\ agents'[e.agent].status = "idle"
             /\ agents'[e.agent].current_task = None
             /\ e.task \in active_tasks
             /\ e.task \notin active_tasks'
             /\ completed_tasks' = Append(completed_tasks, e.task) ]_vars

\* an executor has just returned a failure dict for the task of an agent that
\* no sweep had reset
C26_Witness ==
    \E t \in Completed, a \in AgentIds :
        /\ tasks[t].assigned_agent = Some(a)
        /\ tasks[t].result = Some(FailureResult)
        /\ completed_tasks[Len(completed_tasks)] = t
        /\ agents[a].status = "idle"
        /\ agents[a].failed_tasks = 1
        /\ agents[a].last_activity = now
        /\ now > 0
        /\ now <= StuckTimeout

(* ------------------------------ C27 ------------------------------------ *)
\* invocation e is in flight and its agent no longer holds its task
Released(e) ==
    \/ agents[e.agent].status # "busy"
    \/ agents[e.agent].current_task # Some(e.task)

\* task t is in active_tasks, unfinished and not queued
Pending(t) ==
    /\ t \in active_tasks
    /\ t \notin Queued
    /\ t \notin Completed
    /\ tasks[t].result = None
    /\ tasks[t].error = None
    /\ tasks[t].completed_at = None

\* C27: the task of an agent that a sweep reclaimed stays in active_tasks with
\* no result, error or completed_at and out of task_queue for as long as its
\* invocation is in flight; the step in which the invocation ends moves the
\* task to completed_tasks with completed_at and its result or error set.
C27_ReclaimedTaskStaysActive ==
    [][ \A e \in running :
          Released(e) =>
             /\ Pending(e.task)
             /\ IF e \in running'
                THEN Pending(e.task)'
                ELSE /\ e.task \notin active_tasks'
                     /\ e.task \notin ToSet(task_queue')
                     /\ completed_tasks' = Append(completed_tasks, e.task)
                     /\ tasks'[e.task].completed_at # None
                     /\ \/ tasks'[e.task].result # None
                        \/ tasks'[e.task].error # None ]_vars

\* a sweep has reset an agent whose invocation is still in flight
C27_Witness ==
    \E e \in running :
        /\ e.agent \in reclaimed
        /\ agents[e.agent].status = "idle"
        /\ agents[e.agent].current_task = None
        /\ Pending(e.task)
        /\ now - e.start_time > StuckTimeout

(* ------------------------------ C28 ------------------------------------ *)
\* C28: the dispatcher does not wait for an executor.  A batch that starts
\* with at least two idle agents and two queued tasks assigns the first two
\* queued tasks: after the batch both have an agent, are in active_tasks and
\* have their executor invocation in flight, neither completed.
C28_BatchAssignsBoth ==
    [][ ( /\ TaskDistributor
          /\ Len(AvailableAgents(agents)) >= 2
          /\ Len(task_queue) >= 2 )
        => \A i \in 1..2 :
              /\ tasks'[task_queue[i]].assigned_agent # None
              /\ tasks'[task_queue[i]].completed_at = None
              /\ task_queue[i] \in active_tasks'
              /\ \E e \in running' : e.task = task_queue[i] ]_vars

(* ------------------------------ C29 ------------------------------------ *)
\* description s contains keyword kw in some mix of upper and lower case
ContainsAnyCase(s, kw) ==
    \E i \in 0..(Len(s) - Len(kw)) :
        \A j \in 1..Len(kw) : s[i + j] \in {kw[j]} \cup
            { UpperChars[k] : k \in { n \in 1..Len(UpperChars) :
                                        LowerChars[n] = kw[j] } }

\* the capabilities the keywords of description s ask for
KeywordSet(s) ==
    (IF ContainsAnyCase(s, KwForm) THEN {"form_filling"} ELSE {})
    \cup (IF ContainsAnyCase(s, KwScrape) \/ ContainsAnyCase(s, KwExtract)
          THEN {"scraping"} ELSE {})
    \cup (IF ContainsAnyCase(s, KwTest) THEN {"testing"} ELSE {})
    \cup (IF ContainsAnyCase(s, KwMonitor) THEN {"monitoring"} ELSE {})

\* C29: _extract_task_requirements returns, whatever the case of the letters
\* of the description, form_filling if it contains "form", scraping if it
\* contains "scrape" or "extract", testing if it contains "test" and
\* monitoring if it contains "monitor", each once; the result is general alone
\* exactly when no keyword occurs, and it is never empty.
C29_RequirementsFromKeywords ==
    selection.done =>
        LET requirements == selection.requirements
            expected == KeywordSet(selection.description)
        IN /\ requirements # << >>
           /\ Len(requirements) = Cardinality(ToSet(requirements))
           /\ expected # {} => ToSet(requirements) = expected
           /\ (requirements = << "general" >>) <=> (expected = {})

\* a call with a description in mixed case that holds all the keywords gave
\* the four capabilities
C29_Witness ==
    /\ selection.done
    /\ selection.description # Lower(selection.description)
    /\ ToSet(selection.requirements)
         = {"form_filling", "scraping", "testing", "monitoring"}

(* ------------------------------ C30 ------------------------------------ *)
\* C30: only IDLE agents receive work.  Every agent for which a step creates
\* an executor invocation was IDLE before that step, and the step creates one
\* invocation for it only; so an agent that is BUSY, ERROR or OFFLINE is
\* never chosen, whatever completions and sweeps came before the batch.
C30_OnlyIdleAssigned ==
    [][ \A e \in Handed :
          /\ agents[e.agent].status = "idle"
          /\ \A f \in Handed : f.agent = e.agent => f = e ]_vars

\* a batch has just given a task to an agent that a sweep had reset and whose
\* earlier invocation is still in flight, and has passed over the other
\* agent, which is BUSY or ERROR
C30_Witness ==
    \E i \in 1..Len(last_batch), a, b \in AgentIds :
        /\ last_batch[i].agent = Some(a)
        /\ agents[a].status = "busy"
        /\ agents[a].current_task = Some(last_batch[i].task)
        /\ Cardinality(InFlight(a)) = 2
        /\ b # a
        /\ agents[b].status \in {"busy", "error"}
        /\ \A j \in 1..Len(last_batch) : last_batch[j].agent # Some(b)

(* ------------------------------ C31 ------------------------------------ *)
\* C31: whatever start_execution and stop_execution calls were made, at most
\* one coroutine of the dispatcher loop, of the monitor loop and of the
\* tracker loop is live.
C31_OneLoopOfEachKind ==
    \A k \in LoopKinds : loops[k] <= 1

(* ------------------------------ C32 ------------------------------------ *)
\* the tasks completed in the earlier work of the agents: they are counted in
\* the statistics and in the agents' counters, and their records, which are
\* not enumerated, are in the code's completed_tasks list
PriorTasks == SumOver(history, DOMAIN history)

CountersConsistent ==
    /\ stats.completed_tasks + stats.failed_tasks
         = PriorTasks + Len(completed_tasks)
    /\ stats.completed_tasks
         = SumOver([a \in AgentIds |-> agents[a].completed_tasks], AgentIds)
    /\ stats.failed_tasks
         = SumOver([a \in AgentIds |-> agents[a].failed_tasks], AgentIds)
    /\ stats.total_tasks = PriorTasks + Len(tasks)

\* C32: in every state stats.completed_tasks + stats.failed_tasks is the
\* number of completed tasks, stats.completed_tasks and stats.failed_tasks are
\* the sums of the agents' counters, and stats.total_tasks is the number of
\* add_task calls; and no step decreases a counter.
C32_CountersConsistent ==
    [][ /\ CountersConsistent
        /\ CountersConsistent'
        /\ stats'.total_tasks >= stats.total_tasks
        /\ stats'.completed_tasks >= stats.completed_tasks
        /\ stats'.failed_tasks >= stats.failed_tasks
        /\ Len(completed_tasks') >= Len(completed_tasks)
        /\ \A a \in AgentIds :
              /\ agents'[a].completed_tasks >= agents[a].completed_tasks
              /\ agents'[a].failed_tasks >= agents[a].failed_tasks ]_vars

\* three tasks ended: one with success, one with a failure dict and one with
\* an exception
C32_Witness ==
    /\ Len(completed_tasks) = 3
    /\ stats.completed_tasks = PriorTasks + 1
    /\ stats.failed_tasks = 2
    /\ \E t \in Completed : tasks[t].result = Some(FailureResult)
    /\ \E t \in Completed : tasks[t].error = Some("exception")

(* ------------------------------ C33 ------------------------------------ *)
\* C33: every BUSY agent's current_task is the id of a task that is in
\* active_tasks and whose assigned_agent is that agent.
C33_BusyAgentHoldsActiveTask ==
    \A a \in AgentIds :
        agents[a].status = "busy" =>
            \E t \in Submitted :
                /\ agents[a].current_task = Some(t)
                /\ t \in active_tasks
                /\ tasks[t].assigned_agent = Some(a)

\* an agent that a sweep reset and the dispatcher gave a second task is BUSY
\* with that task while the invocation of its first task is still in flight,
\* and the other agent has ended a task with an exception
C33_Witness ==
    \E a, b \in AgentIds, e \in running :
        /\ agents[a].status = "busy"
        /\ e.agent = a
        /\ agents[a].current_task # Some(e.task)
        /\ e.task \in active_tasks
        /\ b # a
        /\ agents[b].status = "error"

(* ------------------------------ C34 ------------------------------------ *)
\* C34: the dispatcher is work-conserving.  In the state a dispatcher batch
\* leaves, task_queue is empty or no agent is IDLE.
C34_WorkConserving ==
    last_batch # << >> =>
        \/ task_queue = << >>
        \/ \A a \in AgentIds : agents[a].status # "idle"

(* ------------------------------ C35 ------------------------------------ *)
\* C35: a task in task_queue has no assigned_agent, started_at, completed_at,
\* result or error; a task in active_tasks has assigned_agent and started_at
\* set and completed_at unset; a task in completed_tasks has assigned_agent,
\* started_at and completed_at set.
C35_FieldsFollowMembership ==
    \A t \in Submitted :
        /\ t \in Queued =>
              /\ tasks[t].assigned_agent = None
              /\ tasks[t].started_at = None
              /\ tasks[t].completed_at = None
              /\ tasks[t].result = None
              /\ tasks[t].error = None
        /\ t \in active_tasks =>
              /\ tasks[t].assigned_agent # None
              /\ tasks[t].started_at # None
              /\ tasks[t].completed_at = None
        /\ t \in Completed =>
              /\ tasks[t].assigned_agent # None
              /\ tasks[t].started_at # None
              /\ tasks[t].completed_at # None

\* one task is queued, one is active on an agent that a sweep has reset, and
\* one was completed by an exception
C35_Witness ==
    \E q \in Queued, t \in active_tasks, c \in Completed :
        /\ \E a \in reclaimed : tasks[t].assigned_agent = Some(a)
        /\ tasks[c].error = Some("exception")
        /\ tasks[c].result = None
        /\ tasks[q].created_at # None

====
